---- MODULE Spec2Model ----
(***************************************************************************)
(* Model of the two store bots of this repository.                         *)
(*                                                                         *)
(*   Variant A  src/bot.py       coin / game / subscription bot: a         *)
(*              blocking poll loop that hands every update to              *)
(*              handle_update, one at a time.                              *)
(*   Variant B  src/bot/main.py  catalog / cart bot on aiogram: every      *)
(*              update is handled by its own task, tasks interleave at     *)
(*              each await.                                                *)
(*                                                                         *)
(* Numbers.  Python floats are modelled as fixed point integers counting   *)
(* hundredths (Scale): the quantity 1.5 is 150, the rate 10000.0 is        *)
(* 1000000, the total 10000.00 is 1000000.  Texts are sequences of         *)
(* one-character strings, so that parsing and the comma substitution are   *)
(* computed and not assumed.                                               *)
(***************************************************************************)
EXTENDS Integers, Sequences, FiniteSets, TLC

(***************************************************************************)
(* Bounds of the model.                                                    *)
(***************************************************************************)
MaxUpdates == 5

Scale == 10 * 10
Million == 1000000

(***************************************************************************)
(* Identities.  ADMIN_ID_INT is the configured administrator; in a private *)
(* chat the chat id is the id of the user.                                 *)
(***************************************************************************)
ADMIN_ID_INT == 1
Users == {1, 2}
Chats == {1, 2}

\* Who writes where: <<chat id, user id>>.  Every user talks to the bot in a
\* private chat, whose id is the id of the user.
Senders == {<<u, u>> : u \in Users}

Platforms == {"Xbox", "PlayStation", "PC"}

(***************************************************************************)
(* Texts a user may type, as character sequences.                          *)
(***************************************************************************)
T_start == <<"/", "s", "t", "a", "r", "t">>
T_admin == <<"/", "a", "d", "m", "i", "n">>
T_million == <<"1", "0", "0", "0", "0", "0", "0">>
T_frac == <<"1", ",", "5">>
T_neg == <<"-", "5">>
T_words == <<"a", "b", "c">>
T_grouped == <<"1", "_", "0">>

TextsA == {T_start, T_admin, T_million, T_frac, T_neg, T_words, T_grouped}

(***************************************************************************)
(* Callback tokens.  A token is kept as the pieces the code looks at:     *)
(* <<"platform_", P>> is the string "platform_" followed by P, every      *)
(* other token is one piece.                                               *)
(***************************************************************************)
TokensA ==
    {<<"buy_coins">>, <<"buy_games">>, <<"buy_subscriptions">>,
     <<"confirm_order">>, <<"admin_show_rates">>, <<"admin_set_Xbox">>,
     <<"admin_set_PlayStation">>, <<"admin_set_PC">>, <<"admin_back">>,
     <<"something_else">>}
    \cup {<<"platform_", p>> : p \in Platforms \cup {"Wii"}}

(***************************************************************************)
(* float(text.replace(",", "."))                                           *)
(***************************************************************************)
Digits == {"0", "1", "2", "3", "4", "5", "6", "7", "8", "9"}

DigitVal(ch) ==
    CASE ch = "0" -> 0 [] ch = "1" -> 1 [] ch = "2" -> 2 [] ch = "3" -> 3
      [] ch = "4" -> 4 [] ch = "5" -> 5 [] ch = "6" -> 6 [] ch = "7" -> 7
      [] ch = "8" -> 8 [] ch = "9" -> 9

ReplaceComma(text) ==
    [i \in 1..Len(text) |-> IF text[i] = "," THEN "." ELSE text[i]]

RECURSIVE DigitsToNat(_)
DigitsToNat(ds) ==
    IF ds = <<>> THEN 0
    ELSE 10 * DigitsToNat(SubSeq(ds, 1, Len(ds) - 1)) + DigitVal(ds[Len(ds)])

\* The two leading fractional digits, as hundredths.
FracToHundredths(fs) ==
    IF Len(fs) = 0 THEN 0
    ELSE IF Len(fs) = 1 THEN 10 * DigitVal(fs[1])
    ELSE 10 * DigitVal(fs[1]) + DigitVal(fs[2])

\* An underscore is allowed by float between two digits, where it groups
\* them and is skipped: float("1_0") is 10.0.
GroupingOk(body) ==
    \A i \in 1..Len(body) :
       body[i] = "_" => /\ i > 1 /\ i < Len(body)
                        /\ body[i - 1] \in Digits
                        /\ body[i + 1] \in Digits

Ungroup(body) == SelectSeq(body, LAMBDA ch : ch # "_")

\* float(s) for the literals [sign] digits [. digits], digits grouped by
\* underscores or not; the result is [ok |-> FALSE] where float raises
\* ValueError.
ParseFloat(s) ==
    LET signed == Len(s) > 0 /\ s[1] \in {"-", "+"}
        grouped == IF signed THEN Tail(s) ELSE s
        body == Ungroup(grouped)
        dots == {i \in 1..Len(body) : body[i] = "."}
        wellFormed ==
            /\ GroupingOk(grouped)
            /\ \A i \in 1..Len(body) : body[i] \in Digits \cup {"."}
            /\ \E i \in 1..Len(body) : body[i] \in Digits
            /\ Cardinality(dots) <= 1
        dot == IF dots = {} THEN Len(body) + 1 ELSE CHOOSE i \in dots : TRUE
        whole == DigitsToNat(SubSeq(body, 1, dot - 1))
        frac == FracToHundredths(SubSeq(body, dot + 1, Len(body)))
        mag == whole * Scale + frac
    IN  IF ~wellFormed THEN [ok |-> FALSE, val |-> 0]
        ELSE [ok |-> TRUE,
              val |-> IF signed /\ s[1] = "-" THEN 0 - mag ELSE mag]

(***************************************************************************)
(* Rounding and formatting.                                                *)
(***************************************************************************)
Abs(x) == IF x < 0 THEN 0 - x ELSE x

\* Rounding that drops the remainder.
RoundHalfEvenNat_Truncates(q, r, den) == q

\* Nearest integer to q + r / den, ties to the even neighbour.
RoundHalfEvenNat(q, r, den) ==
    IF 2 * r > den THEN q + 1
    ELSE IF 2 * r < den THEN q
    ELSE IF q % 2 = 0 THEN q ELSE q + 1

\* f"{x:.0f}": x (hundredths) shown as a whole number.
FormatF0(x) ==
    LET m == RoundHalfEvenNat(Abs(x) \div Scale, Abs(x) % Scale, Scale)
    IN  IF x < 0 THEN 0 - m ELSE m

\* f"{x:.2f}": x (hundredths) shown with two decimals, as hundredths.
FormatF2(x) == x

\* (qty / 1_000_000) * rate for qty and rate in hundredths, as the whole
\* hundredths q and the rest r of qty * rate / (Scale * Million), a and b
\* not negative.  The product is formed in two halves of four decimal
\* digits so that no intermediate value leaves the 32 bit range.
Half == Scale * Scale

Times(a, b) ==
    LET ah == a \div Half
        al == a % Half
        bh == b \div Half
        bl == b % Half
        mid == ah * bl + al * bh
        low == (mid % Half) * Half + al * bl
    IN  [q |-> ah * bh + (mid \div Half) + (low \div (Half * Half)),
         r |-> low % (Half * Half)]

\* round((qty / 1_000_000) * rate, 2), in hundredths.  round works on the
\* binary value of the product, which at an exact tie of the decimal
\* values may lie on either side of it; the ties among the quantities and
\* rates of this model (1.5 coins at 10000.0) fall as computed here.
CoinCost(qty, rate) ==
    LET e == Times(Abs(qty), Abs(rate))
        m == RoundHalfEvenNat(e.q, e.r, Half * Half)
    IN  IF (qty < 0) # (rate < 0) THEN 0 - m ELSE m


(***************************************************************************)
(* Variant A: state of poll_loop.                                          *)
(*                                                                         *)
(*   coin_rates  data["coin_rates"], platform -> rate                      *)
(*   data_json   the "coin_rates" table in the file data.json              *)
(*   state       chat id -> session dict; a dict is a record whose domain  *)
(*               is the set of keys it holds                               *)
(*   offset      next update id asked from the transport, 0 for None       *)
(*   update      the update taken from the batch last (the loop variable   *)
(*               of "for update in updates")                               *)
(*   sent        the send_message calls of the update handled last, in     *)
(*               order, each with the outcome of its HTTP request          *)
(*   answered    the answer_callback_query calls of the update handled     *)
(*               last                                                      *)
(*   poll        where poll_loop is: "fetch" about to call getUpdates,     *)
(*               "backoff" in time.sleep(5) after a failed fetch,          *)
(*               "stopped" left by an exception that nothing catches       *)
(***************************************************************************)
VARIABLES coin_rates, data_json, state, offset, update, sent, answered, poll

varsA == <<coin_rates, data_json, state, offset, update, sent, answered, poll>>

\* The variables of variant B, described with its model below.
VARIABLES CARTS, orders, settings, catalog, fsm, tasks, received, finished

varsB == <<CARTS, orders, settings, catalog, fsm, tasks, received, finished>>

vars == <<varsA, varsB>>

DefaultRate == 10000 * Scale

\* load_data on a missing or corrupt file.
load_data == [p \in Platforms |-> DefaultRate]

\* Keyboards, as the callback tokens of their buttons.
MainMenuKb == <<"buy_coins", "buy_games", "buy_subscriptions">>
PlatformsKb == <<"platform_Xbox", "platform_PlayStation", "platform_PC">>
AdminKb == <<"admin_show_rates", "admin_set_Xbox", "admin_set_PlayStation",
             "admin_set_PC", "admin_back">>
ConfirmKb == <<"confirm_order">>
NoKb == <<>>

\* One send_message call.  delivered is the outcome of requests.post; a
\* RequestException is swallowed, so the caller never sees it.
send_message(chat_id, kind, args, reply_markup, delivered) ==
    [to |-> chat_id, kind |-> kind, args |-> args, kb |-> reply_markup,
     delivered |-> delivered]

send_welcome(chat_id, net) ==
    send_message(chat_id, "welcome", <<>>, MainMenuKb, net)

send_platforms(chat_id, net) ==
    send_message(chat_id, "choose_platform", <<>>, PlatformsKb, net)

show_admin_menu(chat_id, net) ==
    send_message(chat_id, "admin_panel", <<>>, AdminKb, net)

Idle == [state |-> "idle"]

\* dict.get(key) is None
Missing(d, key) == key \notin DOMAIN d

\* "if chat_id not in state: state[chat_id] = {'state': 'idle'}"
EnsureEntry(st, chat_id) ==
    IF chat_id \in DOMAIN st THEN st ELSE st @@ (chat_id :> Idle)

\* state[chat_id] = value
Put(st, chat_id, value) ==
    [c \in DOMAIN st \cup {chat_id} |-> IF c = chat_id THEN value ELSE st[c]]

\* What one call of handle_update leaves behind when it returns.
Outcome(st, rates, msgs, acks) ==
    [state |-> st, coin_rates |-> rates, sent |-> msgs, answered |-> acks,
     saved |-> FALSE, raised |-> FALSE]

\* What it leaves behind when an exception leaves it.
Raised(st, rates, msgs) ==
    [state |-> st, coin_rates |-> rates, sent |-> msgs, answered |-> 0,
     saved |-> FALSE, raised |-> TRUE]

\* save_data(data) has returned in the call that leaves out behind: the
\* file holds the table of out.
save_data(out) == [out EXCEPT !.saved = TRUE]

\* The assignment taken as one to every platform.
SetRate_AllPlatforms(rates, platform, new_rate) ==
    [p \in DOMAIN rates \cup {platform} |-> new_rate]

\* data["coin_rates"][platform] = new_rate
SetRate(rates, platform, new_rate) ==
    [p \in DOMAIN rates \cup {platform} |->
       IF p = platform THEN new_rate ELSE rates[p]]

(***************************************************************************)
(* handle_update, "message" branch.                                        *)
(***************************************************************************)
\* OnStart without the reset of the session.
OnStart_KeepsSession(st, rates, chat_id, net) ==
    Outcome(st, rates, <<send_welcome(chat_id, net)>>, 0)


OnStart(st, rates, chat_id, net) ==
    Outcome(Put(st, chat_id, Idle), rates, <<send_welcome(chat_id, net)>>, 0)

OnAdminCommand(st, rates, chat_id, net) ==
    Outcome(Put(st, chat_id, [state |-> "admin_menu"]), rates,
            <<show_admin_menu(chat_id, net)>>, 0)

OnQuantityText(st, rates, chat_id, text, net) ==
    LET session == st[chat_id]
        parsed == ParseFloat(ReplaceComma(text))
    IN  IF ~parsed.ok
        THEN Outcome(st, rates,
                     <<send_message(chat_id, "enter_quantity_digits", <<>>,
                                    NoKb, net)>>, 0)
        ELSE IF Missing(session, "platform")
                \/ session.platform \notin DOMAIN rates
        THEN Outcome(Put(st, chat_id, Idle), rates,
                     <<send_message(chat_id, "unknown_platform", <<>>,
                                    NoKb, net)>>, 0)
        ELSE LET qty == parsed.val
                 total_display == CoinCost(qty, rates[session.platform])
             IN  Outcome(
                   Put(st, chat_id,
                       [state |-> "awaiting_order_confirm",
                        platform |-> session.platform,
                        qty |-> qty, total |-> total_display]),
                   rates,
                   <<send_message(chat_id, "sum",
                                  <<FormatF2(total_display), FormatF0(qty)>>,
                                  ConfirmKb, net)>>, 0)

\* disk is the outcome of save_data: open raising OSError is caught
\* nowhere, neither here nor in poll_loop nor in main, and leaves the file
\* as it was.
OnRateText(st, rates, chat_id, text, net, disk) ==
    LET session == st[chat_id]
        parsed == ParseFloat(ReplaceComma(text))
    IN  IF ~parsed.ok
        THEN Outcome(st, rates,
                     <<send_message(chat_id, "enter_rate_number", <<>>,
                                    NoKb, net)>>, 0)
        ELSE IF ~disk
        THEN Raised(st, SetRate(rates, session.platform, parsed.val), <<>>)
        ELSE save_data(
               Outcome(Put(st, chat_id, Idle),
                       SetRate(rates, session.platform, parsed.val),
                       <<send_message(chat_id, "rate_updated",
                                      <<session.platform,
                                        FormatF2(parsed.val)>>,
                                      NoKb, net)>>, 0))

OnOtherText(st, rates, chat_id, net) ==
    Outcome(st, rates,
            <<send_message(chat_id, "use_menu_buttons", <<>>, NoKb, net)>>, 0)

HandleMessage(st0, rates, chat_id, user_id, text, net, disk) ==
    LET st == EnsureEntry(st0, chat_id)
        current_state == st[chat_id].state
    IN  IF text = T_start THEN OnStart(st, rates, chat_id, net)
        ELSE IF text = T_admin /\ user_id = ADMIN_ID_INT
        THEN OnAdminCommand(st, rates, chat_id, net)
        ELSE IF current_state = "awaiting_coin_quantity"
        THEN OnQuantityText(st, rates, chat_id, text, net)
        ELSE IF current_state = "admin_update_rate"
        THEN OnRateText(st, rates, chat_id, text, net, disk)
        ELSE OnOtherText(st, rates, chat_id, net)

(***************************************************************************)
(* handle_update, "callback_query" branch.  Each operator is one arm of    *)
(* the if/elif chain and yields the state, the rates and the messages;     *)
(* the acknowledgement after the chain is added by HandleCallback.         *)
(***************************************************************************)
\* buy_coins taken as a change of the tag in the session at hand.
OnBuyCoins_KeepsFields(st, rates, chat_id, net) ==
    Outcome([st EXCEPT ![chat_id].state = "select_platform"], rates,
            <<send_platforms(chat_id, net)>>, 0)

OnBuyCoins(st, rates, chat_id, net) ==
    Outcome(Put(st, chat_id, [state |-> "select_platform"]), rates,
            <<send_platforms(chat_id, net)>>, 0)

\* buy_games and buy_subscriptions: notify the admin, tell the user.
OnRequest(st, rates, chat_id, user_id, what, net) ==
    Outcome(Put(st, chat_id, Idle), rates,
            <<send_message(ADMIN_ID_INT, what, <<user_id>>, NoKb, net),
              send_message(chat_id, "request_sent", <<what>>, NoKb, net)>>, 0)

OnPlatform(st, rates, chat_id, platform, net) ==
    Outcome(Put(st, chat_id,
                [state |-> "awaiting_coin_quantity", platform |-> platform]),
            rates,
            <<send_message(chat_id, "enter_quantity", <<platform>>, NoKb,
                           net)>>, 0)
\* OnConfirmOrder without the reset of the session after a notified order.
OnConfirmOrder_KeepsPending(st, rates, chat_id, user_id, net) ==
    LET order_state == st[chat_id]
    IN  IF \/ Missing(order_state, "qty")
           \/ Missing(order_state, "platform")
           \/ Missing(order_state, "total")
        THEN Outcome(Put(st, chat_id, Idle), rates,
                     <<send_message(chat_id, "order_error", <<>>, NoKb,
                                    net)>>, 0)
        ELSE LET shown == <<order_state.platform, FormatF0(order_state.qty),
                            FormatF2(order_state.total)>>
             IN  Outcome(st, rates,
                         <<send_message(chat_id, "order_accepted", shown,
                                        NoKb, net),
                           send_message(ADMIN_ID_INT, "coin_order",
                                        shown \o <<user_id>>, NoKb, net)>>, 0)


OnConfirmOrder(st, rates, chat_id, user_id, net) ==
    LET order_state == st[chat_id]
    IN  IF \/ Missing(order_state, "qty")
           \/ Missing(order_state, "platform")
           \/ Missing(order_state, "total")
        THEN Outcome(Put(st, chat_id, Idle), rates,
                     <<send_message(chat_id, "order_error", <<>>, NoKb,
                                    net)>>, 0)
        ELSE LET shown == <<order_state.platform, FormatF0(order_state.qty),
                            FormatF2(order_state.total)>>
             IN  Outcome(Put(st, chat_id, Idle), rates,
                         <<send_message(chat_id, "order_accepted", shown,
                                        NoKb, net),
                           send_message(ADMIN_ID_INT, "coin_order",
                                        shown \o <<user_id>>, NoKb, net)>>, 0)

OnAdminShowRates(st, rates, chat_id, net) ==
    Outcome(st, rates,
            <<send_message(chat_id, "rates",
                           [p \in DOMAIN rates |-> FormatF2(rates[p])],
                           NoKb, net)>>, 0)

OnAdminSet(st, rates, chat_id, platform, net) ==
    Outcome(Put(st, chat_id,
                [state |-> "admin_update_rate", platform |-> platform]),
            rates,
            <<send_message(chat_id, "enter_rate", <<platform>>, NoKb, net)>>,
            0)

OnAdminBack(st, rates, chat_id, net) ==
    Outcome(Put(st, chat_id, Idle), rates, <<send_welcome(chat_id, net)>>, 0)

\* "Unknown callback data - do nothing"
OnUnknownToken(st, rates) == Outcome(st, rates, <<>>, 0)

\* The if/elif chain over data_cb.
CallbackBranch(st, rates, chat_id, user_id, data_cb, net) ==
    IF data_cb = <<"buy_coins">> THEN OnBuyCoins(st, rates, chat_id, net)
    ELSE IF data_cb = <<"buy_games">>
    THEN OnRequest(st, rates, chat_id, user_id, "game_request", net)
    ELSE IF data_cb = <<"buy_subscriptions">>
    THEN OnRequest(st, rates, chat_id, user_id, "subscription_request", net)
    ELSE IF data_cb[1] = "platform_"
    THEN OnPlatform(st, rates, chat_id, data_cb[2], net)
    ELSE IF data_cb = <<"confirm_order">>
    THEN OnConfirmOrder(st, rates, chat_id, user_id, net)
    ELSE IF data_cb = <<"admin_show_rates">>
    THEN OnAdminShowRates(st, rates, chat_id, net)
    ELSE IF data_cb = <<"admin_set_Xbox">>
    THEN OnAdminSet(st, rates, chat_id, "Xbox", net)
    ELSE IF data_cb = <<"admin_set_PlayStation">>
    THEN OnAdminSet(st, rates, chat_id, "PlayStation", net)
    ELSE IF data_cb = <<"admin_set_PC">>
    THEN OnAdminSet(st, rates, chat_id, "PC", net)
    ELSE IF data_cb = <<"admin_back">> THEN OnAdminBack(st, rates, chat_id, net)
    ELSE OnUnknownToken(st, rates)
\* The acknowledgement left out.
AnswerCallback_Skipped(out) == out

\* answer_callback_query(callback_id) after the chain.
AnswerCallback(out) == [out EXCEPT !.answered = @ + 1]

HandleCallback(st0, rates, chat_id, user_id, data_cb, net) ==
    AnswerCallback(CallbackBranch(EnsureEntry(st0, chat_id), rates, chat_id,
                                  user_id, data_cb, net))

(***************************************************************************)
(* poll_loop: one iteration of "for update in updates", that is one        *)
(* update taken from the transport and handed to handle_update.  Update    *)
(* ids are 1, 2, ...; offset becomes update_id + 1.  limit is the number   *)
(* of updates the transport delivers.                                      *)
(***************************************************************************)
\* An update: "message" carries text, "callback_query" carries data.
Update(type, chat_id, user_id, payload) ==
    [type |-> type, chat |-> chat_id, from |-> user_id, payload |-> payload]

NoUpdate == Update("none", 0, 0, <<>>)

InitA ==
    /\ coin_rates = load_data
    /\ data_json = coin_rates
    /\ state = <<>>
    /\ offset = 0
    /\ update = NoUpdate
    /\ sent = <<>>
    /\ answered = 0
    /\ poll = "fetch"

NextUpdateId == IF offset = 0 THEN 1 ELSE offset

\* An exception that leaves handle_update leaves poll_loop and main too.
Apply(limit, upd, out) ==
    /\ poll = "fetch"
    /\ NextUpdateId <= limit
    /\ poll' = IF out.raised THEN "stopped" ELSE "fetch"
    /\ offset' = NextUpdateId + 1
    /\ update' = upd
    /\ UNCHANGED varsB
    /\ state' = out.state
    /\ coin_rates' = out.coin_rates
    /\ data_json' = IF out.saved THEN out.coin_rates ELSE data_json
    /\ sent' = out.sent
    /\ answered' = out.answered

MessageUpdate(limit, chat_id, user_id, text, net, disk) ==
    Apply(limit, Update("message", chat_id, user_id, text),
          HandleMessage(state, coin_rates, chat_id, user_id, text, net,
                        disk))

CallbackUpdate(limit, chat_id, user_id, data_cb, net) ==
    Apply(limit, Update("callback_query", chat_id, user_id, data_cb),
          HandleCallback(state, coin_rates, chat_id, user_id, data_cb, net))

\* requests.get or response.json() raises: "except Exception" takes the loop
\* to time.sleep(5) with nothing else touched.
FetchFails_Stops ==
    /\ poll = "fetch"
    /\ poll' = "stopped"
    /\ UNCHANGED <<coin_rates, data_json, state, offset, update, sent, answered,
                 varsB>>

FetchFails ==
    /\ poll = "fetch"
    /\ poll' = "backoff"
    /\ UNCHANGED <<coin_rates, data_json, state, offset, update, sent, answered,
                 varsB>>

\* time.sleep(5) returns and "continue" starts the next iteration.
Backoff ==
    /\ poll = "backoff"
    /\ poll' = "fetch"
    /\ UNCHANGED <<coin_rates, data_json, state, offset, update, sent, answered,
                 varsB>>

\* The outcomes save_data can have while a text of the chat is handled: it
\* is called only for a text taken as a rate.
DiskOutcomes(chat_id) ==
    IF chat_id \in DOMAIN state /\ state[chat_id].state = "admin_update_rate"
    THEN BOOLEAN ELSE {TRUE}

PollLoop(limit) ==
    \/ \E from \in Senders, text \in TextsA, net \in BOOLEAN :
          \E disk \in DiskOutcomes(from[1]) :
             MessageUpdate(limit, from[1], from[2], text, net, disk)
    \/ \E from \in Senders, data_cb \in TokensA, net \in BOOLEAN :
          CallbackUpdate(limit, from[1], from[2], data_cb, net)
    \/ FetchFails
    \/ Backoff

NextA == PollLoop(MaxUpdates)

\* The loop with fewer updates, for the properties of its progress.
MaxLive == 3

NextALive == PollLoop(MaxLive)

\* An update is pending and the loop is about to fetch: the steps
\* MessageUpdate and CallbackUpdate are enabled exactly in these states, and
\* they are the steps that move the offset.
FetchPending == poll = "fetch" /\ NextUpdateId <= MaxLive

(***************************************************************************)
(* Variant B: src/bot/main.py, src/bot/storage.py, src/bot/utils.py.       *)
(***************************************************************************)
MaxDispatched == 4
MaxTasks == 2

ADMIN_IDS == {1}

is_admin(user_id) == user_id \in ADMIN_IDS

\* str(DEFAULT_RATE) for the default EXCHANGE_RATE of 3000.
DEFAULT_RATE_TEXT == <<"3", "0", "0", "0", ".", "0">>

T_newrate == <<"3", "5", "0", "0">>

\* A text that is a JSON document, kept in one piece, and the document
\* json.loads makes of it: the catalog with the price of p1 raised.
T_catalog_json == <<"{\"categories\": ..., \"products\": ... 150 ...}">>

TextsB == {T_start, T_admin, T_newrate, T_words, T_catalog_json}

TokensB ==
    {<<"back_to_menu">>, <<"catalog">>, <<"cat:", "c1">>, <<"prod:", "p1">>,
     <<"prod:", "zz">>, <<"add:", "p1", 2>>, <<"add:", "p2", 1>>,
     <<"add:", "zz", 1>>, <<"cart">>, <<"cart_clear">>,
     <<"checkout">>, <<"admin:", "rate">>, <<"admin:", "products">>,
     <<"admin:", "orders">>, <<"admin:", "export">>, <<"admin:", "other">>}

Product(id, title, price_rub, category, active) ==
    [id |-> id, title |-> title, price_rub |-> price_rub,
     category |-> category, active |-> active]

\* bot/data/products.json as shipped, and as replaced by T_catalog_json.
CatalogShipped ==
    [categories |-> <<[id |-> "c1", title |-> "Games"]>>,
     products |-> <<Product("p1", "Game", 100 * Scale, "c1", TRUE),
                    Product("p2", "Pass", 250 * Scale, "c1", FALSE)>>]

CatalogRaised ==
    [categories |-> <<[id |-> "c1", title |-> "Games"]>>,
     products |-> <<Product("p1", "Game", 150 * Scale, "c1", TRUE),
                    Product("p2", "Pass", 250 * Scale, "c1", FALSE)>>]

\* F.text.regexp(r"^\d+(?:\.\d+)?$")
MatchesRateRegex(text) ==
    LET dots == {i \in 1..Len(text) : text[i] = "."}
    IN  /\ Len(text) > 0
        /\ \A i \in 1..Len(text) : text[i] \in Digits \cup {"."}
        /\ Cardinality(dots) <= 1
        /\ \A i \in dots : i > 1 /\ i < Len(text)

\* json.loads on the texts of the model; ok is FALSE where it raises.  A
\* number without sign and without a leading zero is a JSON document, the
\* number itself (kept in a record, in hundredths).
JsonLoads(text) ==
    IF text = T_catalog_json THEN [ok |-> TRUE, doc |-> CatalogRaised]
    ELSE IF /\ MatchesRateRegex(text)
            /\ (text[1] # "0" \/ Len(text) = 1 \/ text[2] = ".")
    THEN [ok |-> TRUE, doc |-> [number |-> ParseFloat(text).val]]
    ELSE [ok |-> FALSE, doc |-> <<>>]

\* F.text.regexp(r"^/.*")
StartsWithSlash(text) == Len(text) > 0 /\ text[1] = "/"

(***************************************************************************)
(*   CARTS      user id -> list of CartItem (a dict: users appear lazily)  *)
(*   orders     the orders table, in insertion order; the id of a row is   *)
(*              its position (INTEGER PRIMARY KEY AUTOINCREMENT)           *)
(*   settings   the settings table, key -> text                            *)
(*   catalog    the document in products.json                              *)
(*   fsm        user id -> FSM state of the user ("" for no state)         *)
(*   tasks      the handler tasks suspended at an await                    *)
(*   received   number of updates taken from the transport                 *)
(*   finished   the handler that returned (or raised) last, with the       *)
(*              calls it made on the transport                             *)
(***************************************************************************)
\* The item without the copy of the price.
CartItem_NoSnapshot(product_id, title, qty, price_rub) ==
    [product_id |-> product_id, title |-> title, qty |-> qty,
     price_rub |-> 0]

CartItem(product_id, title, qty, price_rub) ==
    [product_id |-> product_id, title |-> title, qty |-> qty,
     price_rub |-> price_rub]

RECURSIVE calc_total(_)
calc_total(items) ==
    IF items = <<>> THEN 0
    ELSE items[1].qty * items[1].price_rub + calc_total(Tail(items))

\* f"{amount:,.0f}": the amount as a whole number of rubles.
human_rub(amount) == FormatF0(amount)

get_setting(table, key, default) ==
    IF key \in DOMAIN table THEN table[key] ELSE default

set_setting(table, key, value) ==
    [k \in DOMAIN table \cup {key} |-> IF k = key THEN value ELSE table[k]]

\* The row with an id that does not grow.
NewOrder_ReusesId(table, user_id, items, total_rub, rate) ==
    [id |-> 1, user_id |-> user_id, items |-> items,
     total_rub |-> total_rub, rate |-> rate, status |-> "new"]

\* The row save_order inserts; its id is cur.lastrowid.
NewOrder(table, user_id, items, total_rub, rate) ==
    [id |-> Len(table) + 1, user_id |-> user_id, items |-> items,
     total_rub |-> total_rub, rate |-> rate, status |-> "new"]

\* The insert taken as a replacement of the rows.
save_order_Replaces(table, user_id, items, total_rub, rate) ==
    <<NewOrder(table, user_id, items, total_rub, rate)>>

save_order(table, user_id, items, total_rub, rate) ==
    Append(table, NewOrder(table, user_id, items, total_rub, rate))

\* CARTS.get(user_id, [])
CartOf(carts, user_id) ==
    IF user_id \in DOMAIN carts THEN carts[user_id] ELSE <<>>

\* The assignment taken as one to the cart of every user.
SetCart_AllUsers(carts, user_id, value) ==
    [u \in DOMAIN carts \cup {user_id} |-> value]

\* CARTS[user_id] = value
SetCart(carts, user_id, value) ==
    [u \in DOMAIN carts \cup {user_id} |->
       IF u = user_id THEN value ELSE carts[u]]

\* next((p for p in data["products"] if p["id"] == prod_id), None)
FindProduct(doc, prod_id) ==
    LET hits == {i \in 1..Len(doc.products) : doc.products[i].id = prod_id}
    IN  IF hits = {} THEN <<>>
        ELSE <<doc.products[CHOOSE i \in hits : \A j \in hits : i <= j]>>

\* One call on the transport: c.answer, c.message.edit_text,
\* c.message.answer, m.answer or m.reply.
Call(method, kind, args) == [method |-> method, kind |-> kind, args |-> args]

Acks(out) == Cardinality({i \in 1..Len(out) : out[i].method = "c.answer"})

NoHandler ==
    [id |-> 0, type |-> "none", h |-> "none", from |-> 0, out |-> <<>>,
     raised |-> FALSE]

\* A handler invocation: the kind of update it handles ("message" or
\* "callback_query"), the handler, the sender and the calls made so far.
\* AnyUser stands for the sender in the handlers that never look at it.
AnyUser == 0

Handler(type, h, user_id, out) ==
    [id |-> received + 1, type |-> type, h |-> h, from |-> user_id,
     out |-> out, raised |-> FALSE]

Suspended(inv, pc) == [inv |-> inv, pc |-> pc]

InitB ==
    /\ CARTS = <<>>
    /\ orders = <<>>
    /\ settings = [k \in {"exchange_rate"} |-> DEFAULT_RATE_TEXT]
    /\ catalog = CatalogShipped
    /\ fsm = [u \in Users |-> ""]
    /\ tasks = {}
    /\ received = 0
    /\ finished = NoHandler

Init == InitA /\ InitB

(***************************************************************************)
(* The quantity entry over a range of quantities and rates: a process      *)
(* started on a data.json that holds the rates saved by earlier runs, and  *)
(* two users who pick a platform and type a quantity.                      *)
(***************************************************************************)
MaxCoin == 4

T_zero == <<"0">>
T_example == <<"3", "0", "0", "0", "0", "0">>

QuantityTexts == {T_zero, T_frac, T_example, T_million}

\* Rates found in data.json: 10000.00, 12500.50 and 9999.99.
SavedRates == {DefaultRate, 12500 * Scale + 50, 9999 * Scale + 99}

\* load_data on an existing file.
LoadedData ==
    {[p \in Platforms |->
        IF p = "Xbox" THEN x ELSE IF p = "PlayStation" THEN y
        ELSE DefaultRate] : x \in SavedRates, y \in SavedRates}

InitCoin ==
    /\ coin_rates \in LoadedData
    /\ data_json = coin_rates
    /\ state = <<>>
    /\ offset = 0
    /\ update = NoUpdate
    /\ sent = <<>>
    /\ answered = 0
    /\ poll = "fetch"
    /\ CARTS = <<>>
    /\ orders = <<>>
    /\ settings = [k \in {"exchange_rate"} |-> DEFAULT_RATE_TEXT]
    /\ catalog = CatalogShipped
    /\ fsm = [u \in Users |-> ""]
    /\ tasks = {}
    /\ received = 0
    /\ finished = NoHandler

NextCoin ==
    \/ \E from \in Senders, text \in QuantityTexts, net \in BOOLEAN :
          MessageUpdate(MaxCoin, from[1], from[2], text, net, TRUE)
    \/ \E from \in Senders, p \in {"Xbox", "PlayStation"},
          net \in BOOLEAN :
          CallbackUpdate(MaxCoin, from[1], from[2], <<"platform_", p>>, net)

(***************************************************************************)
(* The rate update: the rate menu, texts sent as a rate, and the listing   *)
(* of the rates.                                                           *)
(***************************************************************************)
MaxRate == 4

T_rate == <<"1", "2", "5", "0", "0", ".", "5">>
T_ratecomma == <<"1", "2", "5", "0", "0", ",", "5", "0">>

RateTexts == {T_rate, T_ratecomma, T_frac, T_words}

RateTokens ==
    {<<"admin_show_rates">>, <<"admin_set_Xbox">>,
     <<"admin_set_PlayStation">>, <<"admin_set_PC">>}

NextRate ==
    \/ \E from \in Senders, text \in RateTexts, net \in BOOLEAN :
          \E disk \in DiskOutcomes(from[1]) :
             MessageUpdate(MaxRate, from[1], from[2], text, net, disk)
    \/ \E from \in Senders, data_cb \in RateTokens, net \in BOOLEAN :
          CallbackUpdate(MaxRate, from[1], from[2], data_cb, net)

\* The dispatcher takes one more update; limit is the number of handler
\* tasks that may be in flight at once.
Take(limit) ==
    /\ received < MaxDispatched
    /\ Cardinality(tasks) < limit
    /\ received' = received + 1
    /\ UNCHANGED varsA

\* The handler ends at its last await.  Whether that call raises changes
\* nothing the program keeps, so its outcome is not told apart.
Return(inv) ==
    /\ finished' = inv
    /\ tasks' = tasks

\* The handler is suspended at an await with code still to run after it.
Suspend(inv, pc) ==
    /\ tasks' = tasks \cup {Suspended(inv, pc)}
    /\ finished' = finished

\* A suspended handler ends; ok is FALSE when the await it was suspended at,
\* or a later one, raised and the exception left the handler.
Leave(t, out, ok) ==
    /\ tasks' = tasks \ {t}
    /\ finished' = [t.inv EXCEPT !.out = out, !.raised = ~ok]

(***************************************************************************)
(* Handlers that end at their only await.                                  *)
(***************************************************************************)
MainMenuKbB == <<"catalog", "cart">>
AdminKbB == <<"admin:rate", "admin:products", "admin:orders", "admin:export">>

start(limit, user_id) ==
    /\ Take(limit)
    /\ Return(Handler("message", "start", user_id,
                      <<Call("m.answer", "welcome", MainMenuKbB)>>))
    /\ UNCHANGED <<CARTS, orders, settings, catalog, fsm>>

back_menu(limit) ==
    /\ Take(limit)
    /\ Return(Handler("callback_query", "back_menu", AnyUser,
                      <<Call("edit_text", "main_menu", MainMenuKbB)>>))
    /\ UNCHANGED <<CARTS, orders, settings, catalog, fsm>>

show_catalog(limit) ==
    /\ Take(limit)
    /\ Return(Handler("callback_query", "show_catalog", AnyUser,
                      <<Call("edit_text", "categories",
                             [i \in 1..Len(catalog.categories) |->
                                catalog.categories[i].id])>>))
    /\ UNCHANGED <<CARTS, orders, settings, catalog, fsm>>

show_products(limit, cat_id) ==
    LET prods == SelectSeq(catalog.products,
                           LAMBDA p : p.category = cat_id /\ p.active)
    IN  /\ Take(limit)
        /\ Return(Handler("callback_query", "show_products", AnyUser,
                          <<Call("edit_text", "products",
                                 [i \in 1..Len(prods) |-> prods[i].id])>>))
        /\ UNCHANGED <<CARTS, orders, settings, catalog, fsm>>

prod_detail(limit, prod_id) ==
    LET prod == FindProduct(catalog, prod_id)
        call == IF prod = <<>>
                THEN Call("c.answer", "no_such_product", <<>>)
                ELSE Call("edit_text", "product",
                          <<prod[1].title, prod[1].price_rub>>)
    IN  /\ Take(limit)
        /\ Return(Handler("callback_query", "prod_detail", AnyUser,
                          <<call>>))
        /\ UNCHANGED <<CARTS, orders, settings, catalog, fsm>>

\* The body of show_cart up to its await: the edit_text call it makes.
ShowCartCall(carts, table, user_id) ==
    LET items == CartOf(carts, user_id)
        rate == ParseFloat(get_setting(table, "exchange_rate",
                                       DEFAULT_RATE_TEXT)).val
    IN  IF items = <<>> THEN Call("edit_text", "cart_empty", <<>>)
        ELSE Call("edit_text", "cart",
                  <<human_rub(calc_total(items)), rate>>)

show_cart(limit, user_id) ==
    /\ Take(limit)
    /\ Return(Handler("callback_query", "show_cart", user_id,
                      <<ShowCartCall(CARTS, settings, user_id)>>))
    /\ UNCHANGED <<CARTS, orders, settings, catalog, fsm>>

admin_menu(limit, user_id) ==
    LET call == IF ~is_admin(user_id)
                THEN Call("m.reply", "access_denied", <<>>)
                ELSE Call("m.answer", "admin_panel", AdminKbB)
    IN  /\ Take(limit)
        /\ Return(Handler("message", "admin_menu", user_id, <<call>>))
        /\ UNCHANGED <<CARTS, orders, settings, catalog, fsm>>

(***************************************************************************)
(* Cart handlers.                                                          *)
(***************************************************************************)
\* add_to_cart up to "await c.answer(...)".
add_to_cart(limit, user_id, prod_id, qty) ==
    LET prod == FindProduct(catalog, prod_id)
        inv(call) == Handler("callback_query", "add_to_cart", user_id,
                             <<call>>)
    IN  /\ Take(limit)
        /\ IF prod = <<>>
           THEN /\ Return(inv(Call("c.answer", "no_such_product", <<>>)))
                /\ CARTS' = CARTS
           ELSE /\ CARTS' = SetCart(CARTS, user_id,
                                    Append(CartOf(CARTS, user_id),
                                           CartItem(prod_id, prod[1].title,
                                                    qty, prod[1].price_rub)))
                /\ Suspend(inv(Call("c.answer", "added", <<>>)), "show_cart")
        /\ UNCHANGED <<orders, settings, catalog, fsm>>

\* cart_clear up to "await c.answer(...)".
cart_clear(limit, user_id) ==
    /\ Take(limit)
    /\ CARTS' = SetCart(CARTS, user_id, <<>>)
    /\ Suspend(Handler("callback_query", "cart_clear", user_id,
                       <<Call("c.answer", "cleared", <<>>)>>), "show_cart")
    /\ UNCHANGED <<orders, settings, catalog, fsm>>

\* add_to_cart and cart_clear after their c.answer: "await show_cart(c)".
\* ok is the outcome of c.answer; show_cart ends at its edit_text.
resume_show_cart(t, ok) ==
    /\ t \in tasks
    /\ t.pc = "show_cart"
    /\ IF ~ok THEN Leave(t, t.inv.out, FALSE)
       ELSE Leave(t, Append(t.inv.out,
                            ShowCartCall(CARTS, settings, t.inv.from)), TRUE)
    /\ UNCHANGED <<CARTS, orders, settings, catalog, fsm, received, varsA>>

\* "if not items" taken as never true.
CartIsEmpty_Never(items) == FALSE

\* "if not items"
CartIsEmpty(items) == items = <<>>

\* checkout up to its first await.
checkout(limit, user_id) ==
    LET items == CartOf(CARTS, user_id)
        total == calc_total(items)
        rate == ParseFloat(get_setting(settings, "exchange_rate",
                                       DEFAULT_RATE_TEXT)).val
        order_id == Len(orders) + 1
        inv(call) == Handler("callback_query", "checkout", user_id,
                             <<call>>)
    IN  /\ Take(limit)
        /\ IF CartIsEmpty(items)
           THEN /\ Return(inv(Call("c.answer", "cart_is_empty", <<>>)))
                /\ orders' = orders
           ELSE /\ orders' = save_order(orders, user_id, items, total, rate)
                /\ Suspend(inv(Call("message.answer", "order_created",
                                    <<order_id, human_rub(total)>>)),
                           "clear_cart")
        /\ UNCHANGED <<CARTS, settings, catalog, fsm>>

\* checkout after "await c.message.answer(...)": CARTS[user] = [].
resume_checkout(t, ok) ==
    /\ t \in tasks
    /\ t.pc = "clear_cart"
    /\ Leave(t, t.inv.out, ok)
    /\ CARTS' = IF ok THEN SetCart(CARTS, t.inv.from, <<>>) ELSE CARTS
    /\ UNCHANGED <<orders, settings, catalog, fsm, received, varsA>>

(***************************************************************************)
(* Admin handlers.                                                         *)
(***************************************************************************)
\* admin_actions up to its first await.
admin_actions(limit, user_id, action) ==
    LET inv(out) == Handler("callback_query", "admin_actions", user_id,
                            out)
        cur == get_setting(settings, "exchange_rate", DEFAULT_RATE_TEXT)
    IN  /\ Take(limit)
        /\ IF ~is_admin(user_id)
           THEN Return(inv(<<Call("c.answer", "no_access", <<>>)>>))
           ELSE IF action = "rate"
           THEN Suspend(inv(<<Call("message.answer", "current_rate", cur)>>),
                        "set_state_await_rate")
           ELSE IF action = "products"
           THEN Suspend(inv(<<Call("message.answer", "send_json", <<>>)>>),
                        "set_state_waiting_json")
           ELSE IF action = "orders"
           THEN IF orders = <<>>
                THEN Return(inv(<<Call("message.answer", "no_orders",
                                       <<>>)>>))
                ELSE Return(inv(<<Call("message.answer", "orders",
                                       [i \in 1..Len(orders) |->
                                          orders[Len(orders) + 1 - i].id])>>))
           ELSE IF action = "export"
           THEN Return(inv(<<Call("message.answer", "exported",
                                  <<Len(orders)>>)>>))
           ELSE Return(inv(<<>>))
        /\ UNCHANGED <<CARTS, orders, settings, catalog, fsm>>

\* admin_actions after "await c.message.answer(...)": state.set_state(...).
resume_admin_actions(t, ok) ==
    /\ t \in tasks
    /\ t.pc \in {"set_state_await_rate", "set_state_waiting_json"}
    /\ Leave(t, t.inv.out, ok)
    /\ fsm' = IF ~ok THEN fsm
              ELSE [fsm EXCEPT ![t.inv.from] =
                      IF t.pc = "set_state_await_rate" THEN "await_rate"
                      ELSE "waiting_json"]
    /\ UNCHANGED <<CARTS, orders, settings, catalog, received, varsA>>

\* set_rate up to "await m.reply(...)".
set_rate(limit, user_id, text) ==
    LET inv(out) == Handler("message", "set_rate", user_id, out)
    IN  /\ MatchesRateRegex(text)
        /\ Take(limit)
        /\ IF fsm[user_id] = "await_rate"
           THEN /\ settings' = set_setting(settings, "exchange_rate", text)
                /\ Suspend(inv(<<Call("m.reply", "rate_updated", text)>>),
                           "state_clear")
           ELSE /\ settings' = settings
                /\ Return(inv(<<>>))
        /\ UNCHANGED <<CARTS, orders, catalog, fsm>>

\* set_rate after its reply: state.clear().
resume_set_rate(t, ok) ==
    /\ t \in tasks
    /\ t.pc = "state_clear"
    /\ Leave(t, t.inv.out, ok)
    /\ fsm' = IF ok THEN [fsm EXCEPT ![t.inv.from] = ""] ELSE fsm
    /\ UNCHANGED <<CARTS, orders, settings, catalog, received, varsA>>

\* set_products up to its first await.  The handler is registered after
\* set_rate, so a text that set_rate matches never reaches it.
set_products(limit, user_id, text) ==
    LET inv(out) == Handler("message", "set_products", user_id, out)
        parsed == JsonLoads(text)
    IN  /\ ~StartsWithSlash(text)
        /\ ~MatchesRateRegex(text)
        /\ Take(limit)
        /\ IF fsm[user_id] = "waiting_json" /\ is_admin(user_id)
           THEN IF parsed.ok
                THEN /\ catalog' = parsed.doc
                     /\ Suspend(inv(<<Call("m.reply", "catalog_updated",
                                           <<>>)>>), "replied_updated")
                ELSE /\ catalog' = catalog
                     /\ Suspend(inv(<<Call("m.reply", "error", <<>>)>>),
                                "replied_error")
           ELSE /\ catalog' = catalog
                /\ Return(inv(<<>>))
        /\ UNCHANGED <<CARTS, orders, settings, fsm>>

\* set_products after a reply.  A reply that raises inside the try block is
\* caught and answered with the error text; the finally block clears the
\* FSM state on every path.
resume_set_products(t, ok) ==
    /\ t \in tasks
    /\ t.pc \in {"replied_updated", "replied_error"}
    /\ IF t.pc = "replied_updated" /\ ~ok
       THEN /\ tasks' = (tasks \ {t}) \cup
                  {Suspended([t.inv EXCEPT !.out =
                                Append(@, Call("m.reply", "error", <<>>))],
                             "replied_error")}
            /\ finished' = finished
            /\ fsm' = fsm
       ELSE /\ Leave(t, t.inv.out, ok)
            /\ fsm' = [fsm EXCEPT ![t.inv.from] = ""]
    /\ UNCHANGED <<CARTS, orders, settings, catalog, received, varsA>>

(***************************************************************************)
(* The dispatcher.  limit = 1 hands an update to its handler only when no  *)
(* other handler is suspended; limit = MaxTasks lets handlers interleave   *)
(* at their awaits, as start_polling does with one task per update.        *)
(***************************************************************************)
Dispatch(limit) ==
    \/ \E u \in Users : start(limit, u)
    \/ back_menu(limit)
    \/ show_catalog(limit)
    \/ \E d \in TokensB : d[1] = "cat:" /\ show_products(limit, d[2])
    \/ \E d \in TokensB : d[1] = "prod:" /\ prod_detail(limit, d[2])
    \/ \E u \in Users, d \in TokensB :
          d[1] = "add:" /\ add_to_cart(limit, u, d[2], d[3])
    \/ \E u \in Users : show_cart(limit, u)
    \/ \E u \in Users : cart_clear(limit, u)
    \/ \E u \in Users : checkout(limit, u)
    \/ \E u \in Users : admin_menu(limit, u)
    \/ \E u \in Users, d \in TokensB :
          d[1] = "admin:" /\ admin_actions(limit, u, d[2])
    \/ \E u \in Users, text \in TextsB : set_rate(limit, u, text)
    \/ \E u \in Users, text \in TextsB : set_products(limit, u, text)

Resume ==
    \/ \E t \in tasks, ok \in BOOLEAN : resume_show_cart(t, ok)
    \/ \E t \in tasks, ok \in BOOLEAN : resume_checkout(t, ok)
    \/ \E t \in tasks, ok \in BOOLEAN : resume_admin_actions(t, ok)
    \/ \E t \in tasks, ok \in BOOLEAN : resume_set_rate(t, ok)
    \/ \E t \in tasks, ok \in BOOLEAN : resume_set_products(t, ok)

NextB == Dispatch(MaxTasks) \/ Resume

NextBSerial == Dispatch(1) \/ Resume

(***************************************************************************)
(* The two variants side by side, as two processes that share nothing:    *)
(* the coin flow of variant A and the cart handlers of variant B, for two  *)
(* chats and two users.  MaxEvents bounds the updates the two take         *)
(* together.                                                               *)
(***************************************************************************)
MaxEvents == 4

SessionTexts == {T_start, T_frac}

SessionTokens ==
    {<<"buy_coins">>, <<"platform_", "Xbox">>, <<"confirm_order">>}

CartTokens == {<<"add:", "p1", 2>>, <<"add:", "p2", 1>>}

Taken == (NextUpdateId - 1) + received

NextBoth ==
    \/ \E from \in Senders, text \in SessionTexts :
          MessageUpdate(MaxEvents - received, from[1], from[2], text, TRUE,
                        TRUE)
    \/ \E from \in Senders, data_cb \in SessionTokens :
          CallbackUpdate(MaxEvents - received, from[1], from[2], data_cb,
                         TRUE)
    \/ \E u \in Users, d \in CartTokens :
          Taken < MaxEvents /\ add_to_cart(MaxTasks, u, d[2], d[3])
    \/ \E u \in Users : Taken < MaxEvents /\ cart_clear(MaxTasks, u)
    \/ \E u \in Users : Taken < MaxEvents /\ checkout(MaxTasks, u)
    \/ \E t \in tasks, ok \in BOOLEAN : resume_show_cart(t, ok)
    \/ \E t \in tasks, ok \in BOOLEAN : resume_checkout(t, ok)

(***************************************************************************)
(* Specifications.                                                         *)
(***************************************************************************)
\* Variant A.
SpecA == Init /\ [][NextA]_vars

\* Variant A with its progress: time.sleep(5) returns, and the transport
\* recovers, that is a fetch that is tried again and again succeeds in the
\* end while updates are pending.
\* The second condition is strong fairness of the delivery of an update,
\* written with its enabling condition FetchPending.
SpecALive ==
    /\ Init
    /\ [][NextALive]_vars
    /\ WF_vars(Backoff)
    /\ (<>[](~FetchPending) \/ []<><<offset' # offset>>_vars)

\* Variant A, quantity entries over saved rates.
SpecCoin == InitCoin /\ [][NextCoin]_vars

\* Variant A, rate updates and listings.
SpecRate == Init /\ [][NextRate]_vars

\* The session handling of variant A and the cart handling of variant B.
SpecBoth == Init /\ [][NextBoth]_vars

\* Variant B, one task per update.
SpecB == Init /\ [][NextB]_vars

\* Variant B, handlers run one after the other.
SpecBSerial == Init /\ [][NextBSerial]_vars

(***************************************************************************)
(* Variant A: properties.                                                  *)
(***************************************************************************)
\* The session of a chat; a chat without an entry is treated by the code as
\* an idle one.
SessionOf(st, chat_id) == IF chat_id \in DOMAIN st THEN st[chat_id] ELSE Idle

HasPending(st, chat_id) ==
    {"platform", "qty", "total"} \subseteq DOMAIN SessionOf(st, chat_id)

\* The positions in msgs of the messages of one kind.
OfKind(msgs, kind) == {i \in 1..Len(msgs) : msgs[i].kind = kind}

\* This step handles an update of the given type and payload; update' is
\* that update.
Handles(type, payload) ==
    /\ offset' # offset
    /\ update'.type = type
    /\ update'.payload = payload

ConfirmTap == Handles("callback_query", <<"confirm_order">>)

\* A confirm tap without the pending fields: no order, the generic error.
ConfirmWithoutPending(chat_id) ==
    /\ OfKind(sent', "coin_order") = {}
    /\ Len(sent') = 1
    /\ sent'[1].kind = "order_error"
    /\ sent'[1].to = chat_id
    /\ state'[chat_id] = Idle

\* An order notification is only produced by a confirm tap that finds the
\* pending fields, and the quantity and the total a session holds are only
\* put there by a text taken as a quantity.
OrdersComeFromEntries ==
    /\ (offset' # offset /\ OfKind(sent', "coin_order") # {})
          => /\ update'.type = "callback_query"
             /\ update'.payload = <<"confirm_order">>
             /\ HasPending(state, update'.chat)
             /\ ~HasPending(state', update'.chat)
    /\ \A c \in Chats :
          (HasPending(state', c)
             /\ (~HasPending(state, c) \/ state'[c] # state[c]))
          => /\ update'.type = "message"
             /\ update'.chat = c
             /\ SessionOf(state, c).state = "awaiting_coin_quantity"
             /\ ParseFloat(ReplaceComma(update'.payload)).ok

\* C1 as claimed: a confirm tap that finds platform, qty and total sends
\* exactly one admin notification carrying exactly that platform, quantity
\* and total and leaves the session idle; a confirm tap that misses one of
\* them sends no notification, the generic error, and leaves the session
\* idle.
C1_CarriesExactQuantity ==
    [][ConfirmTap =>
         IF HasPending(state, update'.chat)
         THEN /\ Cardinality(OfKind(sent', "coin_order")) = 1
              /\ \A i \in OfKind(sent', "coin_order") :
                    /\ sent'[i].to = ADMIN_ID_INT
                    /\ sent'[i].args[1] = state[update'.chat].platform
                    /\ sent'[i].args[2] * Scale = state[update'.chat].qty
                    /\ sent'[i].args[3] = state[update'.chat].total
              /\ state'[update'.chat] = Idle
         ELSE ConfirmWithoutPending(update'.chat)]_vars

\* C1 as amended: the same, but the notification carries the quantity
\* rounded to a whole number of coins (1.5 is carried as 2); and no order
\* notification is sent without consuming a quantity entry, so each
\* accepted entry is notified at most once.
C1_AtMostOnceOrder ==
    [][/\ ConfirmTap =>
            IF HasPending(state, update'.chat)
            THEN /\ Cardinality(OfKind(sent', "coin_order")) = 1
                 /\ \A i \in OfKind(sent', "coin_order") :
                       /\ sent'[i].to = ADMIN_ID_INT
                       /\ sent'[i].args[1] = state[update'.chat].platform
                       /\ 2 * Abs(sent'[i].args[2] * Scale
                                    - state[update'.chat].qty) <= Scale
                       /\ sent'[i].args[3] = state[update'.chat].total
                 /\ state'[update'.chat] = Idle
            ELSE ConfirmWithoutPending(update'.chat)
       /\ OrdersComeFromEntries]_vars

\* C1 witness: an order with a fractional quantity has just been notified
\* to the admin with the quantity as a whole number, and the session is idle.
C1_Witness ==
    /\ update.type = "callback_query"
    /\ update.payload = <<"confirm_order">>
    /\ \E i \in OfKind(sent, "coin_order") :
          sent[i].args = <<"Xbox", 2, 150, 2>>
    /\ state[2] = Idle

\* C5 as claimed, for variant A: a "/admin" text from a user who is not the
\* admin is answered with the access-denied reply and nothing else, no
\* admin menu is sent, and the session of the chat is what it was.
C5_AdminCommandDenied ==
    [][(Handles("message", T_admin) /\ update'.from # ADMIN_ID_INT)
         => /\ Len(sent') = 1
            /\ sent'[1].kind = "access_denied"
            /\ OfKind(sent', "admin_panel") = {}
            /\ SessionOf(state', update'.chat)
                  = SessionOf(state, update'.chat)]_vars

AdminTokensA ==
    {<<"admin_show_rates">>, <<"admin_set_Xbox">>,
     <<"admin_set_PlayStation">>, <<"admin_set_PC">>, <<"admin_back">>}

\* C6 as claimed, for variant A: an admin callback sent by a user who is not
\* the admin leaves the session and the rates unchanged, and a rate changes
\* only while an update sent by the admin is handled.
C6_AdminCallbacksGated ==
    [][/\ \A data_cb \in AdminTokensA :
            (Handles("callback_query", data_cb)
               /\ update'.from # ADMIN_ID_INT)
            => /\ SessionOf(state', update'.chat)
                     = SessionOf(state, update'.chat)
               /\ coin_rates' = coin_rates
       /\ coin_rates' # coin_rates => update'.from = ADMIN_ID_INT]_vars

\* C7: every callback update is acknowledged exactly once by handle_update,
\* whatever the token, the session and the outcome of the sends; an
\* unrecognized token sends nothing, changes no rate and no existing session.
C7_CallbackAnsweredOnce ==
    [][(offset' # offset /\ update'.type = "callback_query")
         => /\ answered' = 1
            /\ update'.payload = <<"something_else">>
                  => /\ sent' = <<>>
                     /\ coin_rates' = coin_rates
                     /\ \A c \in DOMAIN state :
                           c \in DOMAIN state' /\ state'[c] = state[c]]_vars

\* C7 witness: an unrecognized token was acknowledged once in a chat that
\* waits for a confirmation, and the chat still waits.
C7_Witness ==
    /\ update.type = "callback_query"
    /\ update.payload = <<"something_else">>
    /\ answered = 1
    /\ sent = <<>>
    /\ state[update.chat].state = "awaiting_order_confirm"

\* C9: "/start" sends the welcome with the three-option menu, leaves the
\* session idle with no pending field, and changes no rate.
C9_StartResets ==
    [][Handles("message", T_start)
         => /\ Len(sent') = 1
            /\ sent'[1].kind = "welcome"
            /\ sent'[1].to = update'.chat
            /\ sent'[1].kb = <<"buy_coins", "buy_games", "buy_subscriptions">>
            /\ DOMAIN state'[update'.chat] = {"state"}
            /\ state'[update'.chat].state = "idle"
            /\ coin_rates' = coin_rates]_vars

\* C9 witness: "/start" was handled after a rate had been changed; the
\* welcome went out, the session is idle and the changed rate is kept.
C9_Witness ==
    /\ update.type = "message"
    /\ update.payload = T_start
    /\ Len(sent) = 1
    /\ sent[1].kind = "welcome"
    /\ state[update.chat] = Idle
    /\ coin_rates["Xbox"] # DefaultRate

\* The text is a decimal: an optional sign, digits, at most one period,
\* and nothing else.
IsDecimalText(s) ==
    LET signed == Len(s) > 0 /\ s[1] \in {"-", "+"}
        body == IF signed THEN Tail(s) ELSE s
    IN  /\ \A i \in 1..Len(body) : body[i] \in Digits \cup {"."}
        /\ \E i \in 1..Len(body) : body[i] \in Digits
        /\ Cardinality({i \in 1..Len(body) : body[i] = "."}) <= 1

\* The step handles a text that is no command, in a session that waits for
\* a number.
NumberAwaited ==
    /\ offset' # offset
    /\ update'.type = "message"
    /\ update'.payload # T_start
    /\ ~(update'.payload = T_admin /\ update'.from = ADMIN_ID_INT)
    /\ SessionOf(state, update'.chat).state
          \in {"awaiting_coin_quantity", "admin_update_rate"}

\* C11 as claimed: in awaiting_coin_quantity or admin_update_rate a text that
\* is not a decimal after the comma substitution is answered with the
\* re-prompt of that state and nothing else: the sessions and the rates are
\* what they were and no order notification goes out.
C11_MalformedRePrompted ==
    [][(NumberAwaited /\ ~IsDecimalText(ReplaceComma(update'.payload)))
         => /\ Len(sent') = 1
            /\ sent'[1].to = update'.chat
            /\ sent'[1].kind =
                  (IF state[update'.chat].state = "awaiting_coin_quantity"
                   THEN "enter_quantity_digits" ELSE "enter_rate_number")
            /\ state' = state
            /\ coin_rates' = coin_rates]_vars

\* C12 as claimed: in every reachable state a pending quantity and its
\* total are not negative.
C12_PendingNonNegative ==
    \A c \in DOMAIN state :
       /\ "qty" \in DOMAIN state[c] => state[c].qty >= 0
       /\ "total" \in DOMAIN state[c] => state[c].total >= 0

\* C13 as claimed: in every reachable state the rate table has an entry for
\* Xbox, PlayStation and PC and every rate is strictly positive.
C13_RatesPositive ==
    /\ Platforms \subseteq DOMAIN coin_rates
    /\ \A p \in DOMAIN coin_rates : coin_rates[p] > 0

\* The pending entries of a state: quantity, rate of the platform, total.
PendingEntries ==
    {[qty |-> state[c].qty, rate |-> coin_rates[state[c].platform],
      total |-> state[c].total] : c \in {d \in DOMAIN state :
                                           HasPending(state, d)}}

\* C14: over quantities >= 0 and saved rates > 0, the total stored by a
\* quantity entry is (quantity / 1,000,000) x rate of the platform rounded
\* to the nearest hundredth, it is the total shown in the reply, 1,000,000
\* coins at 10000.0 give 10000.00, and of two entries the one with the
\* larger quantity and the larger rate has the larger or equal total.
C14_CoinPricing ==
    /\ \A e \in PendingEntries :
          LET exact == Times(e.qty, e.rate)
          IN  /\ e.qty >= 0 /\ e.rate > 0
              /\ e.total \in {exact.q, exact.q + 1}
              /\ 2 * exact.r < Half * Half => e.total = exact.q
              /\ 2 * exact.r > Half * Half => e.total = exact.q + 1
              /\ (e.qty = Million * Scale /\ e.rate = 10000 * Scale)
                    => e.total = 10000 * Scale
    /\ \A e1 \in PendingEntries, e2 \in PendingEntries :
          (e1.qty <= e2.qty /\ e1.rate <= e2.rate) => e1.total <= e2.total
    /\ \A i \in OfKind(sent, "sum") :
          /\ HasPending(state, update.chat)
          /\ sent[i].to = update.chat
          /\ sent[i].args[1] = state[update.chat].total

\* C14 witness: 300000 coins at 9999.99 are stored as 3000.00 (2999.997
\* rounded up) in one chat while the other holds 1.5 coins at 12500.50,
\* stored as 0.02.
C14_Witness ==
    /\ [qty |-> 300000 * Scale, rate |-> 9999 * Scale + 99,
        total |-> 3000 * Scale] \in PendingEntries
    /\ [qty |-> 150, rate |-> 12500 * Scale + 50, total |-> 2]
          \in PendingEntries

\* C19: a step of the loop that handles no update (a failed fetch, or the
\* end of the sleep after one) leaves the offset, the sessions, the rates
\* and the messages alone and does not stop the loop, the sleep is followed
\* by a new fetch; and with the transport recovering, a failed fetch with
\* an update pending is followed by the handling of that update.
C19_FetchFailureRetries ==
    /\ [][offset' = offset
            => /\ UNCHANGED <<coin_rates, state, update, sent, answered>>
               /\ poll' # "stopped"
               /\ poll = "backoff" => poll' = "fetch"]_vars
    /\ \A k \in 1..MaxLive :
          (poll = "backoff" /\ NextUpdateId = k) ~> (NextUpdateId > k)

\* C19 witness: the fetch failed after two updates were handled, with an
\* order pending in a session; the loop sleeps with offset and session kept.
C19_Witness ==
    /\ poll = "backoff"
    /\ offset = 3
    /\ \E c \in Chats : HasPending(state, c)

\* C20 as claimed: the poll loop keeps running whatever happens while an
\* update is handled, a failed save of the rate table included.
C20_LoopKeepsRunning == poll # "stopped"

(***************************************************************************)
(* Variant B: properties.                                                  *)
(***************************************************************************)
\* The order checkout writes for a user, from the cart and the setting as
\* they are when it is handled.
ExpectedOrder(user_id) ==
    [id |-> Len(orders) + 1, user_id |-> user_id,
     items |-> CartOf(CARTS, user_id),
     total_rub |-> calc_total(CartOf(CARTS, user_id)),
     rate |-> ParseFloat(settings["exchange_rate"]).val,
     status |-> "new"]

\* C2 as claimed, handlers run one after the other: a checkout over a
\* non-empty cart adds exactly one order, with status new, the items of the
\* cart, their total and the exchange_rate in effect; and when the handler
\* ends its reply carrying the id has gone out and the cart of the user is
\* empty.
C2_CheckoutCreatesOrder ==
    [][/\ \A u \in Users :
            (checkout(1, u) /\ CartOf(CARTS, u) # <<>>)
            => orders' = Append(orders, ExpectedOrder(u))
       /\ \A t \in tasks :
            (t.pc = "clear_cart" /\ t \notin tasks')
            => /\ orders' = orders
               /\ t.inv.out[1].args[1] = Len(orders)
               /\ ~finished'.raised
               /\ CartOf(CARTS', t.inv.from) = <<>>]_vars

\* C3: a checkout for a user whose cart is empty or missing creates no
\* order and leaves the cart table as it is.
C3_EmptyCheckoutChangesNothing ==
    [][\A u \in Users :
         (checkout(MaxTasks, u) /\ CartOf(CARTS, u) = <<>>)
         => /\ orders' = orders
            /\ CARTS' = CARTS
            /\ DOMAIN CARTS' = DOMAIN CARTS]_vars

\* C3 witness: a checkout of a user without a cart entry was answered with
\* "cart is empty" while orders of another user exist.
C3_Witness ==
    /\ finished.h = "checkout"
    /\ finished.id = received
    /\ finished.out[1].kind = "cart_is_empty"
    /\ finished.from \notin DOMAIN CARTS
    /\ orders # <<>>

\* C4 as claimed: handlers of one user do not overlap, so while a checkout
\* of a user is suspended after saving its order, no second order with the
\* same items is created for that user.
C4_OneOrderPerCart ==
    [][\A t \in tasks :
         t.pc = "clear_cart"
         => ~ /\ Len(orders') > Len(orders)
              /\ orders'[Len(orders')].user_id = t.inv.from
              /\ orders'[Len(orders')].items
                    = orders[t.inv.out[1].args[1]].items]_vars

\* The sum of qty x price_rub over the first n lines of a cart.
RECURSIVE SumOfLines(_, _)
SumOfLines(items, n) ==
    IF n = 0 THEN 0
    ELSE SumOfLines(items, n - 1) + items[n].qty * items[n].price_rub

\* C15: a cart only ever grows by one item that carries the price the
\* catalog has when it is added, or is emptied, so the items keep their
\* snapshot; the total shown by the cart view and the total of a new order
\* are the sum of qty x snapshot price over the items of the cart (0 for no
\* items); and a step that replaces the catalog changes no cart and no
\* order.
C15_CartPricing ==
    [][/\ \A u \in Users :
            LET old == CartOf(CARTS, u)
                new == CartOf(CARTS', u)
            IN  \/ new = old
                \/ new = <<>>
                \/ /\ Len(new) = Len(old) + 1
                   /\ SubSeq(new, 1, Len(old)) = old
                   /\ FindProduct(catalog, new[Len(new)].product_id) # <<>>
                   /\ new[Len(new)].price_rub
                        = FindProduct(catalog,
                                      new[Len(new)].product_id)[1].price_rub
       /\ Len(orders') > Len(orders)
            => LET o == orders'[Len(orders')]
               IN  /\ o.items = CartOf(CARTS, o.user_id)
                   /\ o.total_rub = SumOfLines(o.items, Len(o.items))
       /\ finished' # finished
            => \A i \in 1..Len(finished'.out) :
                  finished'.out[i].kind = "cart"
                  => LET items == CartOf(CARTS', finished'.from)
                     IN  finished'.out[i].args[1]
                           = human_rub(SumOfLines(items, Len(items)))
       /\ calc_total(<<>>) = 0
       /\ catalog' # catalog => (CARTS' = CARTS /\ orders' = orders)]_vars

\* C15 witness: an order holds an item at the price of 100 it had when it
\* was added, with total 200, while the catalog lists the product at 150.
C15_Witness ==
    /\ orders # <<>>
    /\ orders[1].items[1].product_id = "p1"
    /\ orders[1].items[1].price_rub = 100 * Scale
    /\ orders[1].total_rub = 2 * 100 * Scale
    /\ FindProduct(catalog, "p1")[1].price_rub = 150 * Scale

\* C16 as claimed: a text, other than a command, sent by an admin who is in
\* the waiting_json state replaces the catalog by the parsed document when
\* it is valid JSON and leaves the catalog as it is when it is not, a
\* reply (updated, or the error) is made, and the FSM state of the admin is
\* cleared when the handler ends; the catalog is always the old one or a
\* parsed document.
C16_CatalogReplaceAllOrNothing ==
    [][/\ \A u \in Users, text \in TextsB :
            (/\ fsm[u] = "waiting_json"
             /\ is_admin(u)
             /\ set_rate(MaxTasks, u, text) \/ set_products(MaxTasks, u, text))
            => /\ catalog' = IF JsonLoads(text).ok THEN JsonLoads(text).doc
                             ELSE catalog
               /\ \E t \in tasks' \ tasks :
                     /\ t.inv.h = "set_products"
                     /\ t.inv.from = u
                     /\ t.inv.out[1].kind = IF JsonLoads(text).ok
                                            THEN "catalog_updated"
                                            ELSE "error"
       /\ (finished' # finished /\ finished'.h = "set_products"
             /\ finished'.out # <<>>)
            => fsm'[finished'.from] = ""
       /\ catalog' \in {catalog}
                        \cup {JsonLoads(text).doc :
                                text \in {x \in TextsB : JsonLoads(x).ok}}]_vars

\* C17: the ids of the stored orders are pairwise different and grow with
\* the order of creation, and a new order gets an id greater than every id
\* assigned before, which is the id its checkout replies with.
C17_OrderIdsIncrease ==
    [][/\ \A i \in 1..Len(orders'), j \in 1..Len(orders') :
            i < j => orders'[i].id < orders'[j].id
       /\ Len(orders') > Len(orders)
            => /\ \A i \in 1..Len(orders) :
                     orders[i].id < orders'[Len(orders')].id
               /\ \E t \in tasks' \ tasks :
                     /\ t.inv.h = "checkout"
                     /\ t.inv.out[1].args[1] = orders'[Len(orders')].id]_vars

\* C17 witness: two users have checked out; their orders have the ids 1
\* and 2.
C17_Witness ==
    /\ Len(orders) = 2
    /\ orders[1].user_id # orders[2].user_id
    /\ orders[1].id = 1
    /\ orders[2].id = 2

\* C18: no step removes or changes a stored order: the table after a step
\* starts with the table before it, and every stored order has the status
\* new.
C18_OrdersAppendOnly ==
    [][/\ Len(orders') >= Len(orders)
       /\ SubSeq(orders', 1, Len(orders)) = orders
       /\ \A i \in 1..Len(orders') : orders'[i].status = "new"]_vars

\* C18 witness: an order saved at the rate 3000.0 is still stored as it
\* was after the admin has set the rate to 3500.
C18_Witness ==
    /\ orders # <<>>
    /\ orders[1].rate = 3000 * Scale
    /\ orders[1].status = "new"
    /\ settings["exchange_rate"] = T_newrate

\* C8 as claimed: a callback handler that has ended has acknowledged its
\* callback exactly once.
C8_CallbackAnsweredOnce ==
    finished.type = "callback_query" => Acks(finished.out) = 1

\* C10 as claimed: after "/start" the FSM state of the sender is cleared.
C10_StartClearsState ==
    [][\A u \in Users : start(MaxTasks, u) => fsm'[u] = ""]_vars

\* C21 as claimed: a failed send never aborts the flow.  Variant A: in the
\* state at hand every message and every callback leaves the same sessions
\* and rates behind whether its sends are delivered or not.  Variant B: when
\* a checkout that saved its order ends, its reply failed or not, the cart
\* of the user is empty, and a checkout repeated right after one whose reply
\* failed creates no order.
C21_SendFailureKeepsFlow ==
    [][/\ \A from \in Senders, text \in TextsA :
            LET on(net) == HandleMessage(state, coin_rates, from[1], from[2],
                                         text, net, TRUE)
            IN  /\ on(TRUE).state = on(FALSE).state
                /\ on(TRUE).coin_rates = on(FALSE).coin_rates
       /\ \A from \in Senders, data_cb \in TokensA :
            LET on(net) == HandleCallback(state, coin_rates, from[1], from[2],
                                          data_cb, net)
            IN  /\ on(TRUE).state = on(FALSE).state
                /\ on(TRUE).coin_rates = on(FALSE).coin_rates
       /\ \A t \in tasks :
            (t.pc = "clear_cart" /\ t \notin tasks')
            => CartOf(CARTS', t.inv.from) = <<>>
       /\ \A u \in Users :
            (/\ checkout(1, u)
             /\ finished.h = "checkout"
             /\ finished.from = u
             /\ finished.raised)
            => orders' = orders]_vars

\* C22 as claimed: a confirm tap that finds the pending fields tells the
\* user and the admin the total computed from the pending quantity at the
\* rate the platform has when the tap is handled.
C22_TotalAtConfirmationRate ==
    [][(ConfirmTap /\ HasPending(state, update'.chat))
         => LET pending == state[update'.chat]
                due == CoinCost(pending.qty, coin_rates[pending.platform])
            IN  /\ OfKind(sent', "order_accepted") # {}
                /\ OfKind(sent', "coin_order") # {}
                /\ \A i \in OfKind(sent', "order_accepted")
                              \cup OfKind(sent', "coin_order") :
                      sent'[i].args[3] = FormatF2(due)]_vars

\* This step handles a text taken as a rate, and save_data has returned.
RateTextSaved(chat_id) ==
    /\ Handles("message", update'.payload)
    /\ update'.chat = chat_id
    /\ SessionOf(state, chat_id).state = "admin_update_rate"
    /\ ParseFloat(ReplaceComma(update'.payload)).ok
    /\ poll' # "stopped"

\* C23: a text that parses as a decimal r, handled in admin_update_rate
\* with the remembered platform P while data.json can be written, sets the
\* rate of P to r, leaves the rates of the other platforms as they were,
\* leaves the new table in data.json, confirms P and r, and leaves the
\* session idle without any pending field; and an admin_show_rates tap
\* lists every platform with its rate with two decimals, changes no rate
\* and leaves every session as it was.
C23_RateUpdateThenShown ==
    [][/\ \A c \in Chats :
            RateTextSaved(c)
            => LET P == state[c].platform
                   r == ParseFloat(ReplaceComma(update'.payload)).val
               IN  /\ coin_rates'[P] = r
                   /\ \A p \in Platforms \ {P} :
                         coin_rates'[p] = coin_rates[p]
                   /\ DOMAIN coin_rates' = Platforms
                   /\ data_json' = coin_rates'
                   /\ state'[c] = Idle
                   /\ Len(sent') = 1
                   /\ sent'[1].kind = "rate_updated"
                   /\ sent'[1].args = <<P, FormatF2(r)>>
       /\ Handles("callback_query", <<"admin_show_rates">>)
            => /\ Len(sent') = 1
               /\ sent'[1].kind = "rates"
               /\ sent'[1].to = update'.chat
               /\ \A p \in Platforms :
                     sent'[1].args[p] = FormatF2(coin_rates[p])
               /\ coin_rates' = coin_rates
               /\ data_json' = data_json
               /\ \A c \in Chats :
                     SessionOf(state', c) = SessionOf(state, c)]_vars

\* C23 witness: the rates have just been listed after the text 12500.5 set
\* the rate of Xbox: Xbox is listed with 12500.50, the other platforms with
\* the rate they had, and the file holds the table.
C23_Witness ==
    /\ update.type = "callback_query"
    /\ update.payload = <<"admin_show_rates">>
    /\ Len(sent) = 1
    /\ sent[1].kind = "rates"
    /\ sent[1].args["Xbox"] = 12500 * Scale + 50
    /\ sent[1].args["PlayStation"] = DefaultRate
    /\ sent[1].args["PC"] = DefaultRate
    /\ data_json["Xbox"] = 12500 * Scale + 50
    /\ state[update.chat] = Idle

\* The users whose handler is started, suspended, resumed or ended by this
\* step of variant B.
ActingUsers ==
    {t.inv.from : t \in (tasks' \ tasks) \cup (tasks \ tasks')}
    \cup (IF finished' # finished THEN {finished'.from} ELSE {})

\* C24: a step of variant A that handles an update of one chat leaves the
\* session of every other chat, and whether it has one, as it was; a step
\* of variant B runs a handler of one user and leaves the cart of every
\* other user, and whether it has one, as it was.
C24_CrossChatIsolation ==
    [][/\ offset' # offset
            => \A c \in Chats \ {update'.chat} :
                  /\ (c \in DOMAIN state') = (c \in DOMAIN state)
                  /\ SessionOf(state', c) = SessionOf(state, c)
       /\ offset' = offset => state' = state
       /\ Cardinality(ActingUsers) <= 1
       /\ \A v \in Users \ ActingUsers :
             /\ (v \in DOMAIN CARTS') = (v \in DOMAIN CARTS)
             /\ CartOf(CARTS', v) = CartOf(CARTS, v)]_vars

\* C24 witness: chat 1 is still asked for its quantity after a "/start" of
\* chat 2 was handled, and user 1 still has the cart it filled after the
\* cart_clear of user 2 has ended.
C24_Witness ==
    /\ update.chat = 2
    /\ update.payload = T_start
    /\ 1 \in DOMAIN state
    /\ state[1] = [state |-> "awaiting_coin_quantity", platform |-> "Xbox"]
    /\ finished.h = "cart_clear"
    /\ finished.from = 2
    /\ CartOf(CARTS, 2) = <<>>
    /\ Len(CartOf(CARTS, 1)) = 1

SessionTags ==
    {"idle", "select_platform", "awaiting_coin_quantity",
     "awaiting_order_confirm", "admin_menu", "admin_update_rate"}

\* The shape of the sessions of a table: the keys a session holds follow
\* from its tag.
SessionShape(st) ==
    \A c \in DOMAIN st :
       /\ "state" \in DOMAIN st[c]
       /\ st[c].state \in SessionTags
       /\ DOMAIN st[c] \subseteq {"state", "platform", "qty", "total"}
       /\ ("qty" \in DOMAIN st[c]) = (st[c].state = "awaiting_order_confirm")
       /\ ("total" \in DOMAIN st[c])
            = (st[c].state = "awaiting_order_confirm")
       /\ ("platform" \in DOMAIN st[c])
            = (st[c].state \in {"awaiting_coin_quantity",
                                "awaiting_order_confirm",
                                "admin_update_rate"})

\* C25: before and after every step each session has one of the six tags,
\* holds qty and total exactly when its tag is awaiting_order_confirm and a
\* platform exactly when its tag is awaiting_coin_quantity,
\* awaiting_order_confirm or admin_update_rate; and a step that sends an
\* order notification to the admin handles a confirm_order tap of a chat
\* whose session is in awaiting_order_confirm.
C25_SessionShape ==
    [][/\ SessionShape(state)
       /\ SessionShape(state')
       /\ (offset' # offset /\ OfKind(sent', "coin_order") # {})
            => /\ ConfirmTap
               /\ SessionOf(state, update'.chat).state
                    = "awaiting_order_confirm"]_vars

\* C25 witness: one chat is asked for a rate and holds a platform only,
\* the other has its order to confirm and holds platform, qty and total.
C25_Witness ==
    /\ DOMAIN state = {1, 2}
    /\ DOMAIN state[1] = {"state", "platform"}
    /\ state[1].state = "admin_update_rate"
    /\ DOMAIN state[2] = {"state", "platform", "qty", "total"}
    /\ state[2].state = "awaiting_order_confirm"

\* The items of a sequence of cart items.
ItemsOf(items) == {items[i] : i \in 1..Len(items)}

\* C26 as claimed, handlers interleaved at their awaits: an item that a
\* step takes out of the cart of a user is an item of an order of that
\* user, or the step is a cart_clear of that user.
C26_NoCartItemLost ==
    [][\A u \in Users :
         \A item \in ItemsOf(CartOf(CARTS, u)) \ ItemsOf(CartOf(CARTS', u)) :
            \/ cart_clear(MaxTasks, u)
            \/ \E k \in 1..Len(orders') :
                  /\ orders'[k].user_id = u
                  /\ item \in ItemsOf(orders'[k].items)]_vars

====
